---- MODULE Spec2Model ----
(***************************************************************************)
(* State-machine model of the aquarium telemetry server (src/main.py).     *)
(*                                                                         *)
(* Units.  Temperatures and pH are integers in tenths (24.0 degrees C is   *)
(* 240, pH 8.2 is 82); TDS is ppm, turbidity is NTU, water level is        *)
(* percent, time is whole seconds.  The ingest payload carries the raw     *)
(* temperature in hundredths of a degree, so that round(float(raw), 1) is  *)
(* a real rounding; a settings write carries tank_volume in tenths of a    *)
(* litre, so that int(...) is a real truncation.  Where the code computes  *)
(* in floating point (the rounding of the temperature, the temperature     *)
(* margins, the water quality index, the standard deviation, the           *)
(* regression) the model computes on the doubles of these numbers.         *)
(*                                                                         *)
(* Every handler is an `async def` whose body holds no await, so the       *)
(* event loop runs it to completion: one handler is one action.            *)
(***************************************************************************)
EXTENDS Integers, Sequences, FiniteSets, TLC

VARIABLES
    SETTINGS,           \* in-memory settings cache {target_temp, tank_volume}
    current_data,       \* the CurrentState dictionary
    heater_cmd,         \* thermostat output
    history,            \* deque(maxlen=2000) of history entries
    last_history_save,  \* timestamp of the last history append (0 at start)
    db,                 \* the PostgreSQL settings table
    now                 \* time.time()

vars == <<SETTINGS, current_data, heater_cmd, history, last_history_save,
          db, now>>

-----------------------------------------------------------------------------
(* Program constants                                                       *)

PH_MIN == 60
PH_MAX == 82
TURBIDITY_LIMIT == 30
TDS_LIMIT == 500
WATER_LEVEL_MIN == 40
HYSTERESIS == 5
ALARM_TOLERANCE == 15
HISTORY_MAXLEN == 2000
SENTINEL == -1270
RAW_SENTINEL == -12700
DEFAULT_TARGET == 240
DEFAULT_VOLUME == 50
HISTORY_PERIOD == 60
OFFLINE_AFTER == 20
ADC_MAX == 4095
TDS_MAX == 1000
NTU_MAX == 500

-----------------------------------------------------------------------------
(* Bounds of the model                                                     *)

StartTime == 1700000000     \* time.time() when the process starts, in seconds
MaxElapsed == 21        \* Spec: the clock stops this long after the start
ClockMaxElapsed == 125  \* SpecClock: likewise
RingMaxElapsed == 120200    \* SpecRing: likewise, past 2000 history periods

-----------------------------------------------------------------------------
(* JSON values of a request body.  A numeric field is a record with a kind *)
(* "num" (v is the number), "absent" (the key is missing), "bad" (null, a  *)
(* non-numeric string, a list: anything float()/int()/arithmetic rejects)  *)
(* or "inf" (Infinity or 1e999, which json.loads reads as float('inf'); v   *)
(* is INFINITY).                                                           *)

\* float('inf') as a stored number, and -INFINITY for float('-inf'): above
\* (below) every finite one and equal to itself, so that a comparison comes
\* out as it does for the infinity.  Where the code does arithmetic on an
\* infinity the model takes the case apart.
INFINITY == 2147483647

Num(n) == [kind |-> "num", v |-> n]
Absent == [kind |-> "absent", v |-> 0]
Bad == [kind |-> "bad", v |-> 0]
Inf == [kind |-> "inf", v |-> INFINITY]

\* dict.get(key, default)
Get(field, default) == IF field.kind = "absent" THEN default ELSE field

Max(a, b) == IF a >= b THEN a ELSE b
Min(a, b) == IF a <= b THEN a ELSE b
Abs(a) == IF a >= 0 THEN a ELSE -a

\* n/d rounded to the nearest integer, ties to even (Python round, "%.0f")
RoundHalfEven(n, d) ==
    LET q == n \div d
        r == n % d
    IN  IF 2 * r < d THEN q
        ELSE IF 2 * r > d THEN q + 1
        ELSE IF q % 2 = 0 THEN q ELSE q + 1

\* int(n/d): truncation toward zero
Trunc(n, d) == IF n >= 0 THEN n \div d ELSE -((-n) \div d)

-----------------------------------------------------------------------------
(* Exact arithmetic on naturals too wide for one machine integer: a number *)
(* is a little-endian sequence of LIMBS limbs of LIMB_BITS bits each.      *)

LIMB_BITS == 13
LIMBS == 13

\* Body applied to a value that is worked out once, before Body starts
With(v, Body(_)) == CHOOSE r \in {Body(x) : x \in {v}} : TRUE

\* Every function of the arithmetic below is reached through one recursive
\* operator, Float(name, arguments), defined after the last of them: the
\* operator of each function hands its arguments to Float, which applies
\* the definition of that name (RndImpl for Rnd, and so on).  The functions
\* call one another by their operators.
RECURSIVE Float(_, _)

RECURSIVE IntPow2(_)
IntPow2(k) == IF k = 0 THEN 1 ELSE 2 * IntPow2(k - 1)

BASE == IntPow2(LIMB_BITS)
Pow2 == [k \in 0..LIMB_BITS |-> IntPow2(k)]

\* The limbs of the number whose limb i is a[i], any integer: s is the limbs
\* done so far, c the carry into the next one.
RECURSIVE Carry(_, _, _)
Carry(a, s, c) ==
    IF Len(s) = LIMBS THEN s
    ELSE Carry(a, Append(s, (a[Len(s) + 1] + c) % BASE),
               (a[Len(s) + 1] + c) \div BASE)

BigOf(n) == Carry([i \in 1..LIMBS |-> IF i = 1 THEN n ELSE 0], <<>>, 0)
BigMul(a, m) == Carry([i \in 1..LIMBS |-> a[i] * m], <<>>, 0)
BigAdd(a, b) == Carry([i \in 1..LIMBS |-> a[i] + b[i]], <<>>, 0)
BigSub(a, b) == Carry([i \in 1..LIMBS |-> a[i] - b[i]], <<>>, 0)

\* a <= b, D the limbs in which they differ: the highest decides
BigLeqIn(a, b, D) == \A i \in D : a[i] < b[i] \/ \E j \in D : j > i
BigLeq(a, b) == BigLeqIn(a, b, {i \in 1..LIMBS : a[i] # b[i]})

\* the largest k in lo..hi with k * den <= num, given lo * den <= num
RECURSIVE BigQuot(_, _, _, _)
BigQuot(num, den, lo, hi) ==
    IF lo = hi THEN lo
    ELSE LET mid == (lo + hi + 1) \div 2
         IN  IF BigLeq(BigMul(den, mid), num)
             THEN BigQuot(num, den, mid, hi)
             ELSE BigQuot(num, den, lo, mid - 1)

BigZero == [i \in 1..LIMBS |-> 0]
BigIsZero(a) == \A i \in 1..LIMBS : a[i] = 0
BigOdd(a) == a[1] % 2 = 1

\* the value of a number below 2^31
BigToInt(a) == a[1] + BASE * a[2] + BASE * BASE * a[3]

\* sum over j of a[j] * b[i - j + 1]: column i of the long multiplication
RECURSIVE BigColumn(_, _, _, _)
BigColumn(a, b, i, j) ==
    IF j > i THEN 0 ELSE a[j] * b[i - j + 1] + BigColumn(a, b, i, j + 1)

\* a * b
BigTimes(a, b) == Float("BigTimes", <<a, b>>)

\* a divided by a small d, from the top limb down: r < d is the remainder
\* of the limbs above i, and q their quotient
RECURSIVE BigDivFrom(_, _, _, _, _)
BigDivFrom(a, d, i, r, q) ==
    CASE i = 0 -> [q |-> q, r |-> r]
      [] r < d /\ Len(q) = LIMBS - i ->
            BigDivFrom(a, d, i - 1, (r * BASE + a[i]) % d,
                       <<(r * BASE + a[i]) \div d>> \o q)

BigDivSmall(a, d) == BigDivFrom(a, d, LIMBS, 0, <<>>)

\* a * BASE^q
BigShlLimbs(a, q) == [i \in 1..LIMBS |-> IF i > q THEN a[i - q] ELSE 0]

\* a * 2^k
BigShl(a, k) ==
    BigMul(BigShlLimbs(a, k \div LIMB_BITS), Pow2[k % LIMB_BITS])

\* floor(a / 2^k), and whether anything was cut off
BigShrLimbs(a, q) == [i \in 1..LIMBS |-> IF i + q <= LIMBS THEN a[i + q] ELSE 0]
BigShrOf(a, q, d) ==
    [q |-> d.q,
     sticky |-> d.r # 0 \/ \E i \in 1..Min(q, LIMBS) : a[i] # 0]
BigShr(a, k) ==
    BigShrOf(a, k \div LIMB_BITS,
             BigDivSmall(BigShrLimbs(a, k \div LIMB_BITS), Pow2[k % LIMB_BITS]))

\* the index of the highest limb that is not zero, 0 for the number 0
BigTop(a) ==
    LET S == {i \in 1..LIMBS : a[i] # 0}
    IN  IF S = {} THEN 0 ELSE CHOOSE i \in S : \A j \in S : j <= i

\* the number of bits of n < BASE: the least L with n < 2^L
IntBits(n) == Cardinality({k \in 0..(LIMB_BITS - 1) : Pow2[k] <= n})

\* the number of bits of a
BigBitsOf(a, t) == IF t = 0 THEN 0 ELSE (t - 1) * LIMB_BITS + IntBits(a[t])
BigBits(a) == BigBitsOf(a, BigTop(a))

\* One limb of the long division: the limb j of the quotient and what is
\* left of rem.  b has its top limb t at least BASE / 2, and
\* rem < b * BASE^(j + 1), so the guess from the top limbs is at most two
\* too large.
BigDivDigit(rem, b, t, j) ==
    With(Min(BASE - 1, (rem[j + t + 1] * BASE + rem[j + t]) \div b[t]),
         LAMBDA guess :
    With(BigShlLimbs(BigMul(b, guess), j), LAMBDA p0 :
    With(BigShlLimbs(BigMul(b, guess - 1), j), LAMBDA p1 :
    IF BigLeq(p0, rem) THEN [digit |-> guess, left |-> BigSub(rem, p0)]
    ELSE IF BigLeq(p1, rem)
        THEN [digit |-> guess - 1, left |-> BigSub(rem, p1)]
    ELSE [digit |-> guess - 2,
          left |-> BigSub(rem, BigShlLimbs(BigMul(b, guess - 2), j))])))

\* Long division, one limb of the quotient at a time from limb j down; q is
\* the digits found so far, highest first.
RECURSIVE BigDivStep(_, _, _, _, _)
BigDivNext(s, b, t, j, q) ==
    CASE s.digit \in 0..(BASE - 1) ->
            BigDivStep(s.left, b, t, j - 1, Append(q, s.digit))
BigDivStep(rem, b, t, j, q) ==
    IF j < 0 THEN [q |-> q, r |-> rem]
    ELSE BigDivNext(BigDivDigit(rem, b, t, j), b, t, j, q)

\* floor(a / b) and whether a remainder is left, for b # 0 and a, b below
\* BASE^(LIMBS - 2)
BigDivOut(d) ==
    [q |-> [i \in 1..LIMBS |->
               IF i <= Len(d.q) THEN d.q[Len(d.q) + 1 - i] ELSE 0],
     sticky |-> ~BigIsZero(d.r)]
BigDivRun(an, bn, t) == BigDivOut(BigDivStep(an, bn, t, BigTop(an) - t, <<>>))
BigDivNorm(a, b, s) == BigDivRun(BigShl(a, s), BigShl(b, s), BigTop(b))
BigDiv(a, b) == Float("BigDiv", <<a, b>>)

-----------------------------------------------------------------------------
(* Python floats.  A float is sign, significand and exponent: the value is *)
(* m * 2^e with 2^52 <= m < 2^53, or m = 0 for zero.  Every operation      *)
(* gives the double nearest the exact result, ties to even, as the         *)
(* hardware does.  The values of the program are far from the overflow     *)
(* and the subnormal range, and those are left out.                        *)

\* the bits of the significand of a double
MANT == 53

Dbl(neg, m, e) == [neg |-> neg, m |-> m, e |-> e]
DZero == Dbl(FALSE, BigZero, 0)

Rnd(neg, n, e, sticky) == Float("Rnd", <<neg, n, e, sticky>>)
DAdd(x, y) == Float("DAdd", <<x, y>>)
DDiv(x, y) == Float("DDiv", <<x, y>>)
DTrunc(x) == Float("DTrunc", <<x>>)
DRound(x, p) == Float("DRound", <<x, p>>)

\* the double nearest n * 2^e (n taken a little larger when sticky), ties to
\* even
RndImpl(neg, n, e, sticky) ==
    With(BigBits(n) - MANT, LAMBDA k :
    IF BigIsZero(n) THEN DZero
    ELSE IF k <= 0 THEN Dbl(neg, BigShl(n, -k), e + k)
    ELSE
    With(BigShr(n, k - 1), LAMBDA cut :
    With(BigShr(cut.q, 1).q, LAMBDA m0 :
    With(BigOdd(cut.q) /\ (sticky \/ cut.sticky \/ BigOdd(m0)), LAMBDA up :
    With(IF up THEN BigAdd(m0, BigOf(1)) ELSE m0, LAMBDA m :
    IF BigBits(m) > MANT THEN Dbl(neg, BigShr(m, 1).q, e + k + 1)
    ELSE Dbl(neg, m, e + k))))))

\* float(n) of an int
DOfInt(n) == Rnd(n < 0, BigOf(Abs(n)), 0, FALSE)
DNeg(x) == IF BigIsZero(x.m) THEN x ELSE [x EXCEPT !.neg = ~x.neg]
DAbs(x) == [x EXCEPT !.neg = FALSE]

\* |x| <= |y|
DMagLeq(x, y) ==
    IF BigIsZero(x.m) THEN TRUE
    ELSE IF BigIsZero(y.m) THEN FALSE
    ELSE IF x.e # y.e THEN x.e < y.e
    ELSE BigLeq(x.m, y.m)

DLeq(x, y) ==
    IF x.neg /\ ~y.neg THEN TRUE
    ELSE IF ~x.neg /\ y.neg THEN BigIsZero(x.m) /\ BigIsZero(y.m)
    ELSE IF x.neg THEN DMagLeq(y, x)
    ELSE DMagLeq(x, y)
DLt(x, y) == ~DLeq(y, x)

DAddImpl(x, y) ==
    IF BigIsZero(x.m) THEN y
    ELSE IF BigIsZero(y.m) THEN x
    ELSE IF x.e - y.e > MANT + 2 THEN x
    ELSE IF y.e - x.e > MANT + 2 THEN y
    ELSE
    With(Min(x.e, y.e), LAMBDA e :
    With(BigShl(x.m, x.e - e), LAMBDA a :
    With(BigShl(y.m, y.e - e), LAMBDA b :
    IF x.neg = y.neg THEN Rnd(x.neg, BigAdd(a, b), e, FALSE)
    ELSE IF BigLeq(b, a) THEN Rnd(x.neg, BigSub(a, b), e, FALSE)
    ELSE Rnd(y.neg, BigSub(b, a), e, FALSE))))
DSub(x, y) == DAdd(x, DNeg(y))
DMul(x, y) == Rnd(x.neg # y.neg, BigTimes(x.m, y.m), x.e + y.e, FALSE)
DDivOf(x, y, d) == Rnd(x.neg # y.neg, d.q, x.e - y.e - (MANT + 2), d.sticky)
DDivImpl(x, y) ==
    IF BigIsZero(x.m) THEN DZero
    ELSE DDivOf(x, y, BigDiv(BigShl(x.m, MANT + 2), y.m))

DOfRatio(n, d) == DDiv(DOfInt(n), DOfInt(d))

\* int(x), for |x| < 2^31
DTruncImpl(x) ==
    With(IF x.e >= 0 THEN BigToInt(BigShl(x.m, x.e))
         ELSE BigToInt(BigShr(x.m, -x.e).q), LAMBDA a :
    IF x.neg THEN -a ELSE a)

\* round(x, nd) counted in units of 1/p, p = 10^nd
DRoundImpl(x, p) ==
    With(BigMul(x.m, p), LAMBDA n :
    With(IF x.e >= 0 THEN BigToInt(BigShl(n, x.e))
         ELSE With(BigShr(n, -x.e - 1), LAMBDA cut :
              With(BigShr(cut.q, 1).q, LAMBDA m0 :
              IF BigOdd(cut.q) /\ (cut.sticky \/ BigOdd(m0))
              THEN BigToInt(m0) + 1 ELSE BigToInt(m0))),
         LAMBDA r :
    IF x.neg THEN -r ELSE r))

-----
(* Unit conversion (receive_data)                                          *)

\* the float nearest a number of tenths
DTenths(k) == DOfRatio(k, 10)

\* round(float(raw_temp), 1), line 469: hundredths to tenths.  The float
\* nearest the decimal is what is rounded, so 23.85 (a float just above)
\* gives 23.9 and 0.25 (exact) gives 0.2.
RoundTempFloat(raw100) == Float("RoundTempFloat", <<raw100>>)

\* The rounding of the raw temperatures the model feeds in, computed once.
TempCodes == {1510, 2290, 2300, 2385, 2400, 2450, 2600, 2610}
TempTable == [raw \in TempCodes |-> RoundTempFloat(raw)] @@ <<>>
RoundTemp(raw100) ==
    IF raw100 \in TempCodes THEN TempTable[raw100] ELSE RoundTempFloat(raw100)

\* temp < (target - margin) and temp > (target + margin), all three floats
\* of tenths: lines 362, 210 and 218
TempBelowFloat(temp, target, margin) ==
    Float("TempBelowFloat", <<temp, target, margin>>)
TempAboveFloat(temp, target, margin) ==
    Float("TempAboveFloat", <<temp, target, margin>>)

\* The comparisons of the temperatures and targets of the model, computed
\* once: the temperatures are the roundings above, the 0.0 of the start and
\* the infinity.
TempTenths == {0, INFINITY} \cup {TempTable[raw] : raw \in TempCodes}
TargetTenths == {161, 240, 260}
TempCases == TempTenths \X TargetTenths \X {10, ALARM_TOLERANCE, 20}
BelowTable ==
    [c \in TempCases |-> TempBelowFloat(c[1], c[2], c[3])] @@ <<>>
AboveTable ==
    [c \in TempCases |-> TempAboveFloat(c[1], c[2], c[3])] @@ <<>>
\* (inf - margin and inf + margin are inf, and inf < inf is False)
TempBelow(temp, target, margin) ==
    IF target = INFINITY THEN temp # INFINITY
    ELSE IF <<temp, target, margin>> \in TempCases
    THEN BelowTable[<<temp, target, margin>>]
    ELSE TempBelowFloat(temp, target, margin)
TempAbove(temp, target, margin) ==
    IF target = INFINITY THEN FALSE
    ELSE IF <<temp, target, margin>> \in TempCases
    THEN AboveTable[<<temp, target, margin>>]
    ELSE TempAboveFloat(temp, target, margin)

\* round(14.0 - (raw / 4095.0) * 14.0, 1), in tenths; not clamped
PhOfRaw(raw) == RoundHalfEven(140 * (ADC_MAX - raw), ADC_MAX)

\* voltage = raw / 4095 * 3.3 = x / 13650 with x = 11 * raw.
\* int(133.42 v^3 - 255.86 v^2 + 857.39 v)
\*   = floor(x * (13342 x^2 - 25586*13650 x + 85739*13650^2) / (100 * 13650^3)),
\* then max(0, min(1000, .)); 0 when voltage < 0.01.
TdsExactImpl(raw) ==
    IF 330 * raw < ADC_MAX THEN 0
    ELSE LET x == 11 * raw
             a == BigMul(BigMul(BigOf(13342), x), x)
             b == BigMul(BigMul(BigOf(25586), 13650), x)
             c == BigMul(BigMul(BigOf(85739), 13650), 13650)
             num == BigMul(BigSub(BigAdd(a, c), b), x)
             den == BigMul(BigMul(BigMul(BigOf(100), 13650), 13650), 13650)
         IN  BigQuot(num, den, 0, TDS_MAX)

\* The conversion of the raw codes the model feeds in, computed once.
TdsCodes == {0, 300, 1000, 6000}
TdsExact(raw) == Float("TdsExact", <<raw>>)
TdsTable == [raw \in TdsCodes |-> TdsExact(raw)] @@ <<>>
TdsOfRaw(raw) == IF raw \in TdsCodes THEN TdsTable[raw] ELSE TdsExact(raw)

\* voltage >= 3.0:  int((3.3 - v) * 33)
\* voltage >= 2.0:  int(10 + (3.0 - v) * 90)
\* otherwise:       int(100 + (2.0 - v) * 200)
\* then max(0, min(500, .))
NtuOfRaw(raw) ==
    LET ntu == IF 11 * raw >= 3 * 13650
                   THEN Trunc(1089 * (ADC_MAX - raw), 10 * ADC_MAX)
               ELSE IF 11 * raw >= 2 * 13650
                   THEN Trunc(280 * ADC_MAX - 297 * raw, ADC_MAX)
               ELSE Trunc(500 * ADC_MAX - 660 * raw, ADC_MAX)
    IN  Max(0, Min(NTU_MAX, ntu))

-----------------------------------------------------------------------------
(* Health evaluator and advisor                                            *)

\* data["water_level"] < WATER_LEVEL_MIN raises TypeError on a stored value
\* that is not a number (receive_data stores the field unconverted)
HealthRaises(data) == data.water_level.kind = "bad"

\* As if global_alert were put together without the temperature alarm.
check_health_without_temp(data) ==
    LET ph_alert == ~(PH_MIN <= data.ph /\ data.ph <= PH_MAX)
        turbidity_alert == data.turbidity > TURBIDITY_LIMIT
        tds_alert == data.tds > TDS_LIMIT
        water_level_alert == data.water_level.v < WATER_LEVEL_MIN
    IN  [temp_alert |-> \/ data.temp = SENTINEL
                        \/ TempBelow(data.temp, data.target_temp, ALARM_TOLERANCE)
                        \/ TempAbove(data.temp, data.target_temp, ALARM_TOLERANCE),
         ph_alert |-> ph_alert,
         turbidity_alert |-> turbidity_alert,
         tds_alert |-> tds_alert,
         water_level_alert |-> water_level_alert,
         global_alert |-> ph_alert \/ turbidity_alert \/ tds_alert
                          \/ water_level_alert]

check_health(data) ==
    LET target == data.target_temp
        temp == data.temp
        ph_alert == ~(PH_MIN <= data.ph /\ data.ph <= PH_MAX)
        turbidity_alert == data.turbidity > TURBIDITY_LIMIT
        tds_alert == data.tds > TDS_LIMIT
        water_level_alert == data.water_level.v < WATER_LEVEL_MIN
    IN  With(IF temp # SENTINEL
             THEN TempBelow(temp, target, ALARM_TOLERANCE)
                  \/ TempAbove(temp, target, ALARM_TOLERANCE)
             ELSE TRUE, LAMBDA temp_is_bad :
        [temp_alert |-> temp_is_bad,
         ph_alert |-> ph_alert,
         turbidity_alert |-> turbidity_alert,
         tds_alert |-> tds_alert,
         water_level_alert |-> water_level_alert,
         global_alert |-> temp_is_bad \/ ph_alert \/ turbidity_alert
                          \/ tds_alert \/ water_level_alert])

\* current_data.update(alerts)
UpdateAlerts(data, alerts) ==
    [data EXCEPT !.temp_alert = alerts.temp_alert,
                 !.ph_alert = alerts.ph_alert,
                 !.turbidity_alert = alerts.turbidity_alert,
                 !.tds_alert = alerts.tds_alert,
                 !.water_level_alert = alerts.water_level_alert,
                 !.global_alert = alerts.global_alert]

\* One advice entry: which text, the number formatted into it, the severity.
Advice(text, amount, type) == [text |-> text, amount |-> amount, type |-> type]

generate_advice(data, volume) ==
    LET target == data.target_temp
        temp == data.temp
        a1 == IF data.tds > TDS_LIMIT
              THEN <<Advice("tds", RoundHalfEven(3 * volume, 10), "danger")>>
              ELSE <<>>
        a2 == IF data.turbidity > TURBIDITY_LIMIT
              THEN <<Advice("turbidity", RoundHalfEven(2 * volume, 10), "warning")>>
              ELSE <<>>
        a3 == IF data.ph < PH_MIN /\ data.ph > 0
              THEN <<Advice("ph_low", RoundHalfEven(volume, 5), "warning")>>
              ELSE <<>>
        a4 == IF data.ph > PH_MAX
              THEN <<Advice("ph_high", 0, "warning")>>
              ELSE <<>>
        a5 == IF temp # SENTINEL /\ TempBelow(temp, target, 10)
              THEN <<Advice("cold", volume, "warning")>>
              ELSE <<>>
        a6 == IF temp # SENTINEL /\ TempAbove(temp, target, 20)
              THEN <<Advice("hot", 0, "warning")>>
              ELSE <<>>
        a7 == IF data.water_level.v < WATER_LEVEL_MIN
              THEN <<Advice("water_level", 0, "warning")>>
              ELSE <<>>
    IN  With(a1 \o a2 \o a3 \o a4 \o a5 \o a6 \o a7, LAMBDA advice_list :
        IF Len(advice_list) = 0
        THEN <<Advice("ok", 0, "ok")>>
        ELSE advice_list)

-----------------------------------------------------------------------------
(* Analytics                                                               *)

\* calculate_wqi in the floats of the code: ph, temp and target_temp are
\* floats of tenths, tds and turbidity are ints, and every penalty and every
\* subtraction from the score is rounded.
WqiFloatImpl(data) ==
    LET ph == DTenths(data.ph)
        tds == data.tds
        ntu == data.turbidity
        ph_deviation == DAbs(DSub(ph, DOfInt(7)))
        tds_penalty == DMul(DOfRatio(tds - 300, 200), DOfInt(20))
        ntu_penalty == DMul(DOfRatio(ntu - 10, 20), DOfInt(15))
    IN  With(DMul(ph_deviation, DOfInt(15)), LAMBDA ph_product :
        With(IF DLt(DOfInt(30), ph_product) THEN DOfInt(30) ELSE ph_product,
             LAMBDA ph_penalty :
        With(IF data.ph > 0 THEN DSub(DOfInt(100), ph_penalty)
             ELSE DOfInt(100), LAMBDA score1 :
        With(IF tds > 500 THEN DSub(score1, DOfInt(30))
             ELSE IF tds > 300 THEN DSub(score1, tds_penalty)
             ELSE score1, LAMBDA score2 :
        With(IF ntu > 30 THEN DSub(score2, DOfInt(25))
             ELSE IF ntu > 10 THEN DSub(score2, ntu_penalty)
             ELSE score2, LAMBDA score3 :
        With(DAbs(DSub(DTenths(data.temp), DTenths(data.target_temp))),
             LAMBDA temp_deviation :
        With(IF data.temp = SENTINEL THEN score3
             \* abs(inf - inf) is nan, which is above nothing; the
             \* deviation of an infinity from a finite number is above 2
             ELSE IF data.temp = INFINITY /\ data.target_temp = INFINITY
                 THEN score3
             ELSE IF DLt(DOfInt(2), temp_deviation)
                 THEN DSub(score3, DOfInt(15))
             ELSE IF DLt(DOfInt(1), temp_deviation)
                 THEN DSub(score3, DOfInt(5))
             ELSE score3, LAMBDA score4 :
        Max(0, Min(100, DTrunc(score4))))))))))
WqiFloat(data) == Float("WqiFloat", <<data>>)

\* The index of the samples the model feeds in, at its temperatures and
\* targets, computed once.  A sample is the raw pH, TDS and turbidity codes.
SampleCodes ==
    {<<2048, 300, 3900>>, <<5000, 6000, -500>>, <<0, 0, 0>>,
     <<2048, 0, 3900>>, <<2048, 6000, 3900>>}
WqiCases ==
    {<<PhOfRaw(c[1]), TdsOfRaw(c[2]), NtuOfRaw(c[3]), temp, target>> :
        c \in SampleCodes, temp \in TempTenths \cup {SENTINEL},
        target \in TargetTenths}
WqiTable ==
    [c \in WqiCases |->
        WqiFloat([ph |-> c[1], tds |-> c[2], turbidity |-> c[3],
                  temp |-> c[4], target_temp |-> c[5]])] @@ <<>>
calculate_wqi(data) ==
    LET c == <<data.ph, data.tds, data.turbidity, data.temp, data.target_temp>>
    IN  IF c \in WqiCases THEN WqiTable[c] ELSE WqiFloat(data)

\* sum(...) of ints: f[lo] + ... + f[hi]
RECURSIVE SumRange(_, _, _)
SumRange(f, lo, hi) ==
    IF lo > hi THEN 0
    ELSE IF lo = hi THEN f[lo]
    ELSE LET mid == (lo + hi) \div 2
         IN  SumRange(f, lo, mid) + SumRange(f, mid + 1, hi)

IsConnected(h) == h.temp # SENTINEL

\* the sum of the numbers s[lo..hi]
RECURSIVE BigSum(_, _, _)
BigSum(s, lo, hi) ==
    IF lo > hi THEN BigZero
    ELSE IF lo = hi THEN s[lo]
    ELSE LET mid == (lo + hi) \div 2
         IN  BigAdd(BigSum(s, lo, mid), BigSum(s, mid + 1, hi))

\* floor(sqrt(x)): Newton's iteration, downwards from r >= sqrt(x)
RECURSIVE BigRootFrom(_, _)
BigRootNext(x, r, next) == IF BigLeq(r, next) THEN r ELSE BigRootFrom(x, next)
BigRootFrom(x, r) == BigRootNext(x, r, BigShr(BigAdd(r, BigDiv(x, r).q), 1).q)

BigRoot(x) ==
    IF BigIsZero(x) THEN BigZero
    ELSE BigRootFrom(x, BigShl(BigOf(1), (BigBits(x) + 1) \div 2))

\* statistics.stdev of the floats of temps (tenths), line 294: the square
\* root, rounded once, of the exact variance
\* (n sum(K^2) - sum(K)^2) / (n (n - 1)) of the floats K[i] * 2^E.  The
\* floats and the K are tuples (\o <<>>), each element worked out once.
StdevImpl(temps) ==
    With(Len(temps), LAMBDA n :
    With([i \in 1..n |-> DTenths(temps[i])] \o <<>>, LAMBDA x :
    With({x[i].e : i \in 1..n}, LAMBDA exponents :
    With(CHOOSE e \in exponents : \A f \in exponents : e <= f, LAMBDA E :
    With([i \in 1..n |-> BigShl(x[i].m, x[i].e - E)] \o <<>>, LAMBDA K :
    With(BigSum([i \in 1..n |-> IF x[i].neg THEN BigZero ELSE K[i]], 1, n),
         LAMBDA pos :
    With(BigSum([i \in 1..n |-> IF x[i].neg THEN K[i] ELSE BigZero], 1, n),
         LAMBDA neg :
    With(IF BigLeq(neg, pos) THEN BigSub(pos, neg) ELSE BigSub(neg, pos),
         LAMBDA sum :
    With(BigSum([i \in 1..n |-> BigTimes(K[i], K[i])], 1, n),
         LAMBDA squares :
    With(BigSub(BigMul(squares, n), BigTimes(sum, sum)), LAMBDA V :
    With(Max(0, (2 * MANT + 35 - BigBits(V)) \div 2), LAMBDA j :
    With(BigDivSmall(BigShl(V, 2 * j), n), LAMBDA d1 :
    With(BigDivSmall(d1.q, n - 1), LAMBDA d2 :
    With(BigRoot(d2.q), LAMBDA root :
    Rnd(FALSE, root, E - j,
        d1.r # 0 \/ d2.r # 0 \/ BigTimes(root, root) # d2.q)))))))))))))))
Stdev(temps) == Float("Stdev", <<temps>>)

\* The thresholds are compared with the stdev as it is, and round(stdev, 2)
\* is returned in hundredths.  statistics.stdev raises on a temperature
\* that is not finite (AttributeError from its exact sum), and the except
\* of line 308 answers for it.
calculate_temp_stability_impl(history_data) ==
    LET hs == SelectSeq(history_data, IsConnected)
        stdev == Stdev([i \in 1..Len(hs) |-> hs[i].temp])
        raises == \E i \in 1..Len(hs) : hs[i].temp = INFINITY
    IN  IF Len(hs) < 5 THEN [value |-> 0, text |-> "Nedostatek dat"]
        ELSE IF raises THEN [value |-> 0, text |-> "Chyba vypoctu"]
        ELSE [value |-> DRound(stdev, 100),
              text |-> IF DLt(stdev, DOfRatio(3, 10)) THEN "Vynikajici stabilita"
                       ELSE IF DLt(stdev, DOfRatio(5, 10)) THEN "Dobra stabilita"
                       ELSE IF DLt(stdev, DOfInt(1)) THEN "Mirne kolisani"
                       ELSE IF DLt(stdev, DOfInt(2)) THEN "Zvysene kolisani"
                       ELSE "Nestabilni teplota"]

NoneValue == [kind |-> "none", v |-> 0]

HasTds(h) == h.tds > 0

\* sum(...) of floats, lines 327-330: acc + f[lo] + ... + f[hi], added one
\* after the other and rounded each time.  The range is halved so that the
\* left half is summed before the right half starts from its result.
RECURSIVE DSumRange(_, _, _, _)
DSumRange(f, lo, hi, acc) ==
    IF lo > hi THEN acc
    ELSE IF lo = hi THEN DAdd(acc, f[lo])
    ELSE LET mid == (lo + hi) \div 2
         IN  CHOOSE r \in {DSumRange(f, mid + 1, hi, a) :
                             a \in {DSumRange(f, lo, mid, acc)}} : TRUE

DSum(f, n) == DSumRange(f, 1, n, DZero)

\* The regression in the floats of the code: the timestamps are floats of
\* whole seconds, the TDS values and n are ints, sum_y is an int.
predict_tds_maintenance_impl(history_data, current_tds, limit) ==
    With(SelectSeq(history_data, HasTds), LAMBDA tds_data :
    With(Len(tds_data), LAMBDA n :
    IF Len(history_data) < 10 THEN NoneValue
    ELSE IF n < 10 THEN NoneValue
    ELSE
    With([i \in 1..n |-> DOfInt(tds_data[i].timestamp)] \o <<>>, LAMBDA x :
    With(DSum(x, n), LAMBDA sum_x :
    With(SumRange([i \in 1..n |-> tds_data[i].tds], 1, n), LAMBDA sum_y :
    With(DSum([i \in 1..n |-> DMul(x[i], DOfInt(tds_data[i].tds))], n),
         LAMBDA sum_xy :
    With(DSum([i \in 1..n |-> DMul(x[i], x[i])], n), LAMBDA sum_xx :
    With(DSub(DMul(DOfInt(n), sum_xx), DMul(sum_x, sum_x)),
         LAMBDA denominator :
    IF BigIsZero(denominator.m) THEN NoneValue
    ELSE
    With(DDiv(DSub(DMul(DOfInt(n), sum_xy), DMul(sum_x, DOfInt(sum_y))),
              denominator), LAMBDA slope :
    IF DLeq(slope, DZero) THEN NoneValue
    ELSE IF current_tds >= limit THEN Num(0)
    ELSE
    With(DDiv(DOfInt(limit - current_tds), slope), LAMBDA seconds_to_limit :
    With(DDiv(seconds_to_limit, DOfInt(86400)), LAMBDA days_to_limit :
    IF DLt(DOfInt(365), days_to_limit) THEN NoneValue
    ELSE Num(Max(1, DTrunc(days_to_limit))))))))))))))

calculate_temp_stability(history_data) ==
    Float("calculate_temp_stability", <<history_data>>)
predict_tds_maintenance(history_data, current_tds, limit) ==
    Float("predict_tds_maintenance", <<history_data, current_tds, limit>>)

\* The floating-point functions by name.  The arguments are worked out
\* before the function starts, which the first test sees to.
Float(name, a) ==
    CASE Len(a) = 0 -> a
      [] name = "Rnd" -> RndImpl(a[1], a[2], a[3], a[4])
      [] name = "BigTimes" ->
            Carry([i \in 1..LIMBS |-> BigColumn(a[1], a[2], i, 1)], <<>>, 0)
      [] name = "BigDiv" ->
            BigDivNorm(a[1], a[2], LIMB_BITS - IntBits(a[2][BigTop(a[2])]))
      [] name = "TdsExact" -> TdsExactImpl(a[1])
      [] name = "DAdd" -> DAddImpl(a[1], a[2])
      [] name = "DDiv" -> DDivImpl(a[1], a[2])
      [] name = "DTrunc" -> DTruncImpl(a[1])
      [] name = "DRound" -> DRoundImpl(a[1], a[2])
      [] name = "Stdev" -> StdevImpl(a[1])
      [] name = "RoundTempFloat" -> DRound(DOfRatio(a[1], 100), 10)
      [] name = "TempBelowFloat" ->
            DLt(DTenths(a[1]), DSub(DTenths(a[2]), DTenths(a[3])))
      [] name = "TempAboveFloat" ->
            DLt(DAdd(DTenths(a[2]), DTenths(a[3])), DTenths(a[1]))
      [] name = "WqiFloat" -> WqiFloatImpl(a[1])
      [] name = "calculate_temp_stability" ->
            calculate_temp_stability_impl(a[1])
      [] name = "predict_tds_maintenance" ->
            predict_tds_maintenance_impl(a[1], a[2], a[3])

-----------------------------------------------------------------------------
(* Persistent settings store.  The table is a record; exists is FALSE when *)
(* init_db never ran against a reachable database, and then every query    *)
(* raises and is caught.  The values written are whole and half degrees    *)
(* and small whole litres, which the REAL column holds exactly.            *)
(*                                                                         *)
(* init_db, get_setting and set_setting each open a connection of their    *)
(* own (get_db_connection, lines 16-26), and whether the store answers is  *)
(* decided at each of them: up is the outcome of the one connect of the    *)
(* call.  A handler that makes several calls takes one outcome for each.   *)

Table(target, volume) ==
    [exists |-> TRUE, target_temp |-> target, tank_volume |-> volume]
NoTable == [exists |-> FALSE, target_temp |-> 0, tank_volume |-> 0]

init_db(d, up) ==
    IF up /\ ~d.exists THEN Table(DEFAULT_TARGET, DEFAULT_VOLUME) ELSE d

get_setting(d, up, key, default) ==
    IF up /\ d.exists THEN d[key] ELSE default

set_setting(d, up, key, value) ==
    IF up /\ d.exists THEN [d EXCEPT ![key] = value] ELSE d

\* The outcomes of k connects, one after the other
Connects(k) == [1..k -> BOOLEAN]

\* Both connects of a read fail: the store is unreachable throughout
Outage == <<FALSE, FALSE>>

-----------------------------------------------------------------------------
(* The process state as one record, and the handlers as functions on it.   *)

State(S, cd, h, hist, lhs, d) ==
    [SETTINGS |-> S, current_data |-> cd, heater_cmd |-> h, history |-> hist,
     last_history_save |-> lhs, db |-> d]

Current == State(SETTINGS, current_data, heater_cmd, history,
                 last_history_save, db)

InitialData(S) ==
    [temp |-> 0, ph |-> 0, turbidity |-> 0, tds |-> 0,
     water_level |-> Num(0),
     pump_state |-> TRUE, heater_state |-> FALSE,
     status |-> "Cekam...", device_name |-> "Nezname",
     last_update |-> -1, last_timestamp |-> 0,
     target_temp |-> S.target_temp, tank_volume |-> S.tank_volume,
     temp_alert |-> FALSE, ph_alert |-> FALSE, turbidity_alert |-> FALSE,
     tds_alert |-> FALSE, water_level_alert |-> FALSE, global_alert |-> FALSE,
     advice |-> <<>>,
     wqi |-> 0,
     temp_stability |-> 0, temp_stability_text |-> "Nedostatek dat",
     tds_prediction_days |-> NoneValue,
     history_count |-> 0]

\* time.strftime("%H:%M:%S", ...): the time of day (-1 stands for "Nikdy")
FormatTime(t) == t % 86400

\* As if the entry were put in with appendleft: newest first, and the newest
\* of the others evicted from a full buffer.
DequeAppendLeft(hist, entry) ==
    IF Len(hist) >= HISTORY_MAXLEN
    THEN <<entry>> \o SubSeq(hist, 1, Len(hist) - 1)
    ELSE <<entry>> \o hist

\* deque(maxlen=2000).append
DequeAppend(hist, entry) ==
    IF Len(hist) >= HISTORY_MAXLEN
    THEN Append(Tail(hist), entry)
    ELSE Append(hist, entry)

\* GET /: ups are the outcomes of the connects of lines 381 and 382
dashboard(st, ups, t) ==
    LET db_target == get_setting(st.db, ups[1], "target_temp", DEFAULT_TARGET)
        db_volume == get_setting(st.db, ups[2], "tank_volume", DEFAULT_VOLUME)
        cd == st.current_data
        time_diff == t - cd.last_timestamp
        status == IF cd.last_timestamp # 0 /\ time_diff > OFFLINE_AFTER
                  THEN "Offline"
                  ELSE IF cd.last_timestamp # 0 THEN "Online"
                  ELSE cd.status
    IN  [st EXCEPT !.current_data =
            [cd EXCEPT !.target_temp = db_target,
                       !.tank_volume = db_volume,
                       !.status = status]]

\* GET /api/settings: ups are the outcomes of the connects of lines 404 and
\* 405
get_settings(st, ups) ==
    LET S == st.SETTINGS
        target == get_setting(st.db, ups[1], "target_temp", S.target_temp)
        volume == get_setting(st.db, ups[2], "tank_volume", S.tank_volume)
    IN  [st EXCEPT !.SETTINGS = [target_temp |-> target, tank_volume |-> volume]]

\* As if the write stored int(data["tank_volume"]) with no floor
NewVolumeUnfloored(raw) == Trunc(raw, 10)

\* max(1, int(data["tank_volume"])), lines 429 and 598; raw is in tenths of a
\* litre and int() truncates towards zero
NewVolume(raw) == Max(1, Trunc(raw, 10))

\* What a settings write returns, lines 440-445 and 607-612 (set_target names
\* the two settings "target" and "volume"), and lines 448-450 and 614-616
SettingsOk(S, h) ==
    [status |-> "ok", target_temp |-> S.target_temp,
     tank_volume |-> S.tank_volume, heater_cmd |-> h]
SettingsError == [status |-> "error"]

\* As if a settings write ran the thermostat against the new target, the way
\* the ingest does at lines 519-526.
SettingsWriteSwitchesHeater(st, ups, data) ==
    LET tt == data.target_temp
        tv == data.tank_volume
        st1 == IF tt.kind \in {"num", "inf"}
               THEN [st EXCEPT !.SETTINGS.target_temp = tt.v,
                               !.current_data.target_temp = tt.v,
                               !.db = set_setting(st.db, ups[1], "target_temp",
                                                  tt.v)]
               ELSE st
        new_volume == NewVolume(tv.v)
        st2 == IF tv.kind = "num"
               THEN [st1 EXCEPT !.SETTINGS.tank_volume = new_volume,
                                !.current_data.tank_volume = new_volume,
                                !.db = set_setting(st1.db, ups[2], "tank_volume",
                                                   new_volume)]
               ELSE st1
    IN  IF tt.kind = "bad"
            THEN [st |-> st, status |-> "error", response |-> SettingsError]
        ELSE IF tv.kind \in {"bad", "inf"}
            THEN [st |-> st1, status |-> "error", response |-> SettingsError]
        ELSE IF HealthRaises(st2.current_data)
            THEN [st |-> st2, status |-> "error", response |-> SettingsError]
        ELSE
        With(check_health(st2.current_data), LAMBDA alerts :
        With(UpdateAlerts(st2.current_data, alerts), LAMBDA cd3 :
        With(generate_advice(cd3, st2.SETTINGS.tank_volume), LAMBDA advice :
        With([st2 EXCEPT !.current_data = [cd3 EXCEPT !.advice = advice],
                         !.heater_cmd =
                             IF cd3.temp # SENTINEL
                             THEN cd3.temp < st2.SETTINGS.target_temp
                             ELSE st2.heater_cmd],
             LAMBDA st3 :
        [st |-> st3, status |-> "ok",
         response |-> SettingsOk(st3.SETTINGS, st3.heater_cmd)]))))

\* The body shared by POST /api/settings and POST /set_target: the state the
\* handler leaves and whether it returned the "ok" or the "error" payload.
\* ups[1] is the outcome of the connect that writes the target and ups[2] of
\* the one that writes the volume, for the writes that are made.  float()
\* takes an Infinity, which becomes the target; int() raises OverflowError
\* on it, as float() and int() raise on a malformed value.
SettingsWrite(st, ups, data) ==
    LET tt == data.target_temp
        tv == data.tank_volume
        st1 == IF tt.kind \in {"num", "inf"}
               THEN [st EXCEPT !.SETTINGS.target_temp = tt.v,
                               !.current_data.target_temp = tt.v,
                               !.db = set_setting(st.db, ups[1], "target_temp",
                                                  tt.v)]
               ELSE st
        new_volume == NewVolume(tv.v)
        st2 == IF tv.kind = "num"
               THEN [st1 EXCEPT !.SETTINGS.tank_volume = new_volume,
                                !.current_data.tank_volume = new_volume,
                                !.db = set_setting(st1.db, ups[2], "tank_volume",
                                                   new_volume)]
               ELSE st1
    IN  IF tt.kind = "bad"
            THEN [st |-> st, status |-> "error", response |-> SettingsError]
        ELSE IF tv.kind \in {"bad", "inf"}
            THEN [st |-> st1, status |-> "error", response |-> SettingsError]
        ELSE IF HealthRaises(st2.current_data)
            THEN [st |-> st2, status |-> "error", response |-> SettingsError]
        ELSE
        With(check_health(st2.current_data), LAMBDA alerts :
        With(UpdateAlerts(st2.current_data, alerts), LAMBDA cd3 :
        With(generate_advice(cd3, st2.SETTINGS.tank_volume), LAMBDA advice :
        With([st2 EXCEPT !.current_data = [cd3 EXCEPT !.advice = advice]],
             LAMBDA st3 :
        [st |-> st3, status |-> "ok",
         response |-> SettingsOk(st3.SETTINGS, st3.heater_cmd)]))))

\* A pass-through field of the ingest payload (pump_state, heater_state,
\* device_name): present with a value, or absent.
Val(x) == [kind |-> "val", v |-> x]

\* As if a disconnected sensor switched the heater off.
ThermostatFailSafe(heater, temp, target) ==
    IF temp # SENTINEL THEN temp < target ELSE FALSE

\* Thermostat, lines 516-526
Thermostat(heater, temp, target) ==
    IF temp # SENTINEL THEN temp < target ELSE heater

\* POST /api/data, lines 458-526: seed target/volume from SETTINGS, convert
\* the raw fields, run the thermostat.  raises: float() or the division
\* rejected a field, and the handler ends there with an unhandled exception.
\* An Infinity is a float: as temp it is stored as it is, as ph it gives
\* 14.0 - inf = -inf, as tds it makes the cubic inf - inf = nan and
\* int(nan) raises ValueError, as turbidity it makes int(-inf) raise
\* OverflowError.
receive_data_convert(st, p) ==
    LET S == st.SETTINGS
        cd1 == [st.current_data EXCEPT !.target_temp = S.target_temp,
                                       !.tank_volume = S.tank_volume]
        raw_temp == Get(p.temp, Num(RAW_SENTINEL))
        raw_ph == Get(p.ph, Num(0))
        raw_tds == Get(p.tds, Num(0))
        raw_turbidity == Get(p.turbidity, Num(0))
        raises == \/ raw_temp.kind = "bad"
                  \/ raw_ph.kind = "bad"
                  \/ raw_tds.kind = "bad"
                  \/ raw_turbidity.kind = "bad"
                  \/ raw_tds.kind = "inf"
                  \/ raw_turbidity.kind = "inf"
    IN  IF raises
        THEN [st |-> [st EXCEPT !.current_data = cd1], raises |-> TRUE,
              temp |-> 0, ph |-> 0, tds |-> 0, ntu |-> 0]
        ELSE
        With(IF raw_temp.kind = "inf" THEN INFINITY     \* round(inf, 1)
             ELSE IF raw_temp.v # RAW_SENTINEL THEN RoundTemp(raw_temp.v)
             ELSE SENTINEL, LAMBDA temp :
        [st |-> [st EXCEPT !.current_data = cd1,
                           !.heater_cmd =
                               Thermostat(st.heater_cmd, temp, cd1.target_temp)],
         raises |-> FALSE,
         temp |-> temp,
         ph |-> IF raw_ph.kind = "inf" THEN -INFINITY
                ELSE PhOfRaw(raw_ph.v),
         tds |-> TdsOfRaw(raw_tds.v),
         ntu |-> NtuOfRaw(raw_turbidity.v)])

-----------------------------------------------------------------------------
(* Inputs                                                                  *)

Reading(temp, ph, tds, turbidity, water_level) ==
    [temp |-> temp, ph |-> ph, tds |-> tds, turbidity |-> turbidity,
     water_level |-> water_level,
     pump_state |-> Val(TRUE), heater_state |-> Val(FALSE),
     device_name |-> Val("tank")]

EmptyPayload ==
    [temp |-> Absent, ph |-> Absent, tds |-> Absent, turbidity |-> Absent,
     water_level |-> Absent, pump_state |-> Absent, heater_state |-> Absent,
     device_name |-> Absent]

\* A clean tank: pH 7.0, 194 ppm, 5 NTU, 80 %
Nominal(temp) == Reading(temp, Num(2048), Num(300), Num(3900), Num(80))

IngestPayloads ==
    { Nominal(Num(2450)),       \* 24.5
      Nominal(Num(2385)),       \* 23.85: its float rounds to 23.9
      Nominal(Absent),          \* temperature sensor disconnected
      Nominal(Num(RAW_SENTINEL)),   \* likewise, reported as -127
      \* raw codes and water level outside their ranges
      Reading(Num(2600), Num(5000), Num(6000), Num(-500), Num(150)),
      \* malformed fields
      Reading(Bad, Num(2048), Num(300), Num(3900), Num(80)),
      Reading(Num(2300), Bad, Num(300), Num(3900), Num(80)),
      Reading(Num(2300), Num(2048), Num(300), Num(3900), Bad) }

\* Bodies of a settings write: target_temp absent, 24.0, 26.0 or malformed;
\* tank_volume absent, -0.5 litres or malformed
SettingsInputs ==
    {[target_temp |-> tt, tank_volume |-> tv] :
        tt \in {Absent, Num(240), Num(260), Bad},
        tv \in {Absent, Num(-5), Bad}}

\* What an earlier run of the server may have left in the store
StoredTables == {NoTable, Table(260, 1)}

-----------------------------------------------------------------------------
(* POST /api/data, continued                                               *)

\* Smart sampling, line 544
ShouldSave(t, lhs) == t - lhs >= HISTORY_PERIOD

\* The body of the response: {"message": "Data saved", "heater_cmd": h} at
\* line 578, or the server's error page after an unhandled exception.
Response(h) == [kind |-> "json", heater_cmd |-> h]
ErrorPage == [kind |-> "error", heater_cmd |-> FALSE]

\* POST /api/data, lines 528-578: commit the sample, sample the history,
\* recompute alerts, advice and analytics.
receive_data_commit(st, c, p, t) ==
    LET cd2 == [st.current_data EXCEPT
                    !.temp = c.temp,
                    !.ph = c.ph,
                    !.turbidity = c.ntu,
                    !.tds = c.tds,
                    !.water_level = Get(p.water_level, Num(0)),
                    !.pump_state = Get(p.pump_state, Val(TRUE)).v,
                    !.heater_state = Get(p.heater_state, Val(FALSE)).v,
                    !.device_name = Get(p.device_name, Val("ESP32")).v,
                    !.status = "Online",
                    !.last_update = FormatTime(t),
                    !.last_timestamp = t]
        save == ShouldSave(t, st.last_history_save)
        entry == [timestamp |-> t, temp |-> c.temp, tds |-> c.tds,
                  ntu |-> c.ntu, ph |-> c.ph]
        hist == IF save THEN DequeAppend(st.history, entry) ELSE st.history
        lhs == IF save THEN t ELSE st.last_history_save
        cd3 == IF save THEN [cd2 EXCEPT !.history_count = Len(hist)] ELSE cd2
        st3 == [st EXCEPT !.current_data = cd3, !.history = hist,
                          !.last_history_save = lhs]
    IN  IF HealthRaises(cd3)
        THEN [st |-> st3, status |-> "500", response |-> ErrorPage]
        ELSE
        With(UpdateAlerts(cd3, check_health(cd3)), LAMBDA cd4 :
        With(calculate_temp_stability(hist), LAMBDA stability :
        With([cd4 EXCEPT
                 !.advice = generate_advice(cd4, cd4.tank_volume),
                 !.wqi = calculate_wqi(cd4),
                 !.temp_stability = stability.value,
                 !.temp_stability_text = stability.text,
                 !.tds_prediction_days =
                     predict_tds_maintenance(hist, c.tds, TDS_LIMIT)],
             LAMBDA cd5 :
        [st |-> [st3 EXCEPT !.current_data = cd5], status |-> "ok",
         response |-> Response(st3.heater_cmd)])))

\* POST /api/data: the outcomes of one request (one: the body holds no
\* await, so nothing runs between its lines, and nothing in it is left to
\* chance)
receive_data(st, p, t) ==
    With(receive_data_convert(st, p), LAMBDA c :
    IF c.raises
    THEN {[st |-> c.st, status |-> "500", response |-> ErrorPage]}
    ELSE {receive_data_commit(c.st, c, p, t)})

-----------------------------------------------------------------------------
(* The state machine                                                       *)

\* Module start, lines 99-166: init_db, then the two reads that fill
\* SETTINGS, each with a connect of its own; tables is what an earlier run of
\* the server may have left in the store.
ModuleStart(tables) ==
    /\ \E d0 \in tables, ups \in Connects(3) :
          /\ db = init_db(d0, ups[1])
          /\ SETTINGS =
                [target_temp |-> get_setting(db, ups[2], "target_temp",
                                             DEFAULT_TARGET),
                 tank_volume |-> get_setting(db, ups[3], "tank_volume",
                                             DEFAULT_VOLUME)]
    /\ current_data = InitialData(SETTINGS)
    /\ heater_cmd = FALSE
    /\ history = <<>>
    /\ last_history_save = 0
    /\ now = StartTime

Init == ModuleStart(StoredTables)

\* The step in which a handler leaves st: the clock is the environment's.
Serve(st) ==
    /\ SETTINGS' = st.SETTINGS
    /\ current_data' = st.current_data
    /\ heater_cmd' = st.heater_cmd
    /\ history' = st.history
    /\ last_history_save' = st.last_history_save
    /\ db' = st.db
    /\ UNCHANGED now

\* POST /api/data with a payload of P
IngestOf(P) ==
    \E p \in P :
        \E r \in receive_data(Current, p, now) :
            Serve(r.st)

Ingest == IngestOf(IngestPayloads)

\* A settings write with a body of D, each of its writes to the store with a
\* connect that succeeds or fails
SettingsWriteOf(D) ==
    \E data \in D, ups \in Connects(2) :
        Serve(SettingsWrite(Current, ups, data).st)

\* POST /api/settings
UpdateSettings == SettingsWriteOf(SettingsInputs)

\* POST /set_target
SetTarget == SettingsWriteOf(SettingsInputs)

\* GET /api/settings with the connects of its two reads as ups
GetSettingsOf(ups) == Serve(get_settings(Current, ups))

GetSettings == \E ups \in Connects(2) : GetSettingsOf(ups)

\* GET / with the connects of its two reads as ups
DashboardOf(ups) == Serve(dashboard(Current, ups, now))

Dashboard == \E ups \in Connects(2) : DashboardOf(ups)

\* Time passes: the clock moves on by one of steps, up to StartTime + horizon
TickOf(steps, horizon) ==
    \E dt \in steps :
        /\ now + dt <= StartTime + horizon
        /\ now' = now + dt
        /\ UNCHANGED <<SETTINGS, current_data, heater_cmd, history,
                       last_history_save, db>>

Tick == TickOf({OFFLINE_AFTER + 1}, MaxElapsed)

Next ==
    \/ Ingest
    \/ UpdateSettings
    \/ SetTarget
    \/ GetSettings
    \/ Dashboard
    \/ Tick

Spec == Init /\ [][Next]_vars

-----------------------------------------------------------------------------
(* The sampling clock: a device that posts while time passes in steps      *)
(* around the 60-second history period.                                    *)

ClockPayloads ==
    { Nominal(Num(2450)),
      EmptyPayload,
      Reading(Bad, Num(2048), Num(300), Num(3900), Num(80)),
      Reading(Num(2300), Num(2048), Num(300), Num(3900), Bad) }

IngestClock == IngestOf(ClockPayloads)

\* The clock steps the environment takes: 20 or 21 seconds
TickClock == TickOf({20, 21}, ClockMaxElapsed)

NextClock ==
    \/ IngestClock
    \/ TickClock
    \/ Dashboard

SpecClock == Init /\ [][NextClock]_vars

-----------------------------------------------------------------------------
(* The history buffer filled past its capacity: a device that posts once   *)
(* per history period, for longer than the buffer holds.  Its payload      *)
(* carries nothing but a temperature of Infinity.                          *)

RingPayload == [EmptyPayload EXCEPT !.temp = Inf]

IngestRing == IngestOf({RingPayload})

TickRing ==
    /\ current_data.last_timestamp = now
    /\ TickOf({HISTORY_PERIOD}, RingMaxElapsed)

NextRing ==
    \/ IngestRing
    \/ TickRing

SpecRing == Init /\ [][NextRing]_vars

-----------------------------------------------------------------------------
(* One sample: the store has never answered, a client may set the target   *)
(* to 16.1 degrees and the volume to one litre, and the device posts one   *)
(* sample out of a grid of raw codes that puts every finding of the        *)
(* advisor on both sides of its limit, or a sample with an Infinity in it. *)

\* temp disconnected, 15.1, 22.9, 23.0, 24.0, 26.0 and 26.1 degrees; pH -3.1,
\* 0.0, 5.9, 6.0, 7.0, 8.2, 8.3 and 9.0; 200, 500 and 501 ppm; 5, 30 and 31
\* NTU; water level 39, 40 and 80.  Then 24.0 degrees with an Infinity as pH
\* and water level, as TDS, as turbidity.
SamplePayloads ==
    {Reading(Num(2400), Inf, Num(310), Num(3900), Inf),
     Reading(Num(2400), Num(2048), Inf, Num(3900), Num(80)),
     Reading(Num(2400), Num(2048), Num(310), Inf, Num(80))} \cup
    {Reading(temp, ph, tds, ntu, level) :
        temp \in {Absent, Num(1510), Num(2290), Num(2300), Num(2400),
                  Num(2600), Num(2610)},
        ph \in {Num(4988), Num(4095), Num(2356), Num(2327), Num(2048),
                Num(1683), Num(1668), Num(1448)},
        tds \in {Num(310), Num(832), Num(834)},
        ntu \in {Num(3900), Num(3445), Num(3432)},
        level \in {Num(39), Num(40), Num(80)}}

\* target_temp 16.1 and tank_volume 1.0
SampleWrites == {[target_temp |-> Num(161), tank_volume |-> Num(10)]}

InitSample ==
    /\ Init
    /\ ~db.exists

\* POST /api/data, once per reading of the clock
IngestSample ==
    /\ current_data.last_timestamp # now
    /\ IngestOf(SamplePayloads)

\* POST /api/settings
UpdateSettingsSample == SettingsWriteOf(SampleWrites)

NextSample ==
    \/ IngestSample
    \/ UpdateSettingsSample

SpecSample == InitSample /\ [][NextSample]_vars

-----------------------------------------------------------------------------
(* The TDS trend: a device that posts once per history period, until the   *)
(* regression has its ten points, either a clean tank at 24.5 degrees      *)
(* (194 ppm) or a saturated TDS probe (1000 ppm) at 26.0 degrees.          *)

TrendMaxElapsed == 540  \* SpecTrend: the clock stops this long after the start

TrendPayloads ==
    { Nominal(Num(2450)),
      Reading(Num(2600), Num(2048), Num(6000), Num(3900), Num(80)) }

InitTrend ==
    /\ Init
    /\ ~db.exists

IngestTrend ==
    /\ current_data.last_timestamp # now
    /\ IngestOf(TrendPayloads)

TickTrend ==
    /\ current_data.last_timestamp = now
    /\ TickOf({HISTORY_PERIOD}, TrendMaxElapsed)

NextTrend ==
    \/ IngestTrend
    \/ TickTrend

SpecTrend == InitTrend /\ [][NextTrend]_vars

-----------------------------------------------------------------------------
(* The tank volume: clients write volumes at, below and above the floor    *)
(* while the device posts, the pages are read and the store answers or    *)
(* not.  An earlier run has left a volume of 30 litres, or no table.      *)

VolumeTables == {NoTable, Table(DEFAULT_TARGET, 30)}

\* target_temp absent, malformed or Infinity; tank_volume absent, -3, -0.5,
\* 0, 2 and 3.5 litres, malformed or Infinity
VolumeWriteInputs ==
    {[target_temp |-> tt, tank_volume |-> tv] :
        tt \in {Absent, Bad, Inf},
        tv \in {Absent, Num(-30), Num(-5), Num(0), Num(20), Num(35), Bad,
                Inf}}

InitVolume == ModuleStart(VolumeTables)

IngestVolume == IngestOf({Nominal(Num(2450))})

\* POST /api/settings
UpdateSettingsVolume == SettingsWriteOf(VolumeWriteInputs)

\* POST /set_target
SetTargetVolume == SettingsWriteOf(VolumeWriteInputs)

NextVolume ==
    \/ IngestVolume
    \/ UpdateSettingsVolume
    \/ SetTargetVolume
    \/ GetSettings
    \/ Dashboard

SpecVolume == InitVolume /\ [][NextVolume]_vars

-----------------------------------------------------------------------------
(* Claims                                                                  *)

\* C1 (as claimed): an ingest whose temperature t is not the sentinel and
\* lies in the dead band T - H <= t <= T leaves heater_cmd as it was.
C1_DeadBandKeepsHeater ==
    [][\A p \in IngestPayloads :
          \A r \in receive_data(Current, p, now) :
              LET t == r.st.current_data.temp
                  T == SETTINGS.target_temp
              IN  (Serve(r.st) /\ r.status = "ok" /\ t # SENTINEL
                      /\ T - HYSTERESIS <= t /\ t <= T)
                  => heater_cmd' = heater_cmd]_vars

\* C2 (as claimed): a settings write with an invalid value in a supplied
\* field returns the error payload and leaves Settings, CurrentState and
\* the persisted store exactly as they were.
C2_InvalidWriteChangesNothing ==
    [][\A data \in SettingsInputs, ups \in Connects(2) :
          LET r == SettingsWrite(Current, ups, data)
          IN  (Serve(r.st) /\ (data.target_temp.kind = "bad"
                               \/ data.tank_volume.kind = "bad"))
              => /\ r.status = "error"
                 /\ UNCHANGED <<SETTINGS, current_data, db>>]_vars

\* C3 (as claimed): an ingest appends a history entry if and only if at
\* least 60 seconds have passed since the timestamp of the last appended
\* entry (the first ingest appends); consecutive entries are at least 60
\* seconds apart; an ingest that does not append still updates CurrentState.
C3_HistorySampling ==
    /\ \A i \in 1..(Len(history) - 1) :
          history[i + 1].timestamp - history[i].timestamp >= HISTORY_PERIOD
    /\ \A p \in ClockPayloads :
          \A r \in receive_data(Current, p, now) :
              LET h == r.st.history
                  due == \/ Len(history) = 0
                         \/ now - history[Len(history)].timestamp
                                >= HISTORY_PERIOD
                  appended == h # history
              IN  /\ appended <=> due
                  /\ appended =>
                        /\ Len(h) = Len(history) + 1
                        /\ SubSeq(h, 1, Len(history)) = history
                        /\ h[Len(h)].timestamp = now
                  /\ r.st.current_data.last_timestamp = now
                  /\ r.st.current_data.status = "Online"

\* The number of entries appended so far when the device posts once per
\* history period from the start (SpecRing)
RingAppends ==
    IF Len(history) = 0 THEN 0
    ELSE (last_history_save - StartTime) \div HISTORY_PERIOD + 1

\* C4: the history never holds more than its capacity, its entries are in
\* insertion order, which is chronological, and after N > capacity appends
\* the oldest entry present is the (N - capacity + 1)-th inserted one.
C4_RingBuffer ==
    /\ Len(history) <= HISTORY_MAXLEN
    /\ \A i \in 1..(Len(history) - 1) :
          history[i].timestamp < history[i + 1].timestamp
    /\ Len(history) = Min(RingAppends, HISTORY_MAXLEN)
    /\ RingAppends > HISTORY_MAXLEN =>
          history[1].timestamp =
              StartTime + (RingAppends - HISTORY_MAXLEN) * HISTORY_PERIOD
    /\ Len(history) > 0 => history[Len(history)].timestamp = last_history_save

\* C4 witness: the buffer is full and its first entries have been evicted.
C4_Witness ==
    /\ Len(history) = HISTORY_MAXLEN
    /\ RingAppends = HISTORY_MAXLEN + 2
    /\ history[1].timestamp = StartTime + 2 * HISTORY_PERIOD

C6_StoredValuesInRange ==
    /\ 0 <= current_data.ph /\ current_data.ph <= 140
    /\ 0 <= current_data.tds /\ current_data.tds <= TDS_MAX
    /\ 0 <= current_data.turbidity /\ current_data.turbidity <= NTU_MAX
    /\ current_data.water_level.kind = "num"
    /\ 0 <= current_data.water_level.v /\ current_data.water_level.v <= 100

\* C7 (as claimed): while the store is unreachable, a dashboard read and a
\* settings read expose the target_temp and tank_volume held in memory
\* (what the user last set), not the built-in defaults.
C7_OutageShowsMemory ==
    [][/\ DashboardOf(Outage) =>
             /\ current_data'.target_temp = SETTINGS.target_temp
             /\ current_data'.tank_volume = SETTINGS.tank_volume
       /\ GetSettingsOf(Outage) => SETTINGS' = SETTINGS]_vars

\* C8 (as claimed): ingest, the settings read and the dashboard read leave
\* the in-memory Settings unchanged.
C8_ReadsKeepSettings ==
    [][(Ingest \/ GetSettings \/ Dashboard) => SETTINGS' = SETTINGS]_vars

\* C9 (as claimed): a dashboard read changes no field of CurrentState other
\* than the offline-detection status.
C9_DashboardReadOnly ==
    [][Dashboard =>
          [current_data' EXCEPT !.status = current_data.status]
              = current_data]_vars

\* C10 (as claimed): every ingest completes with the {message, heater_cmd}
\* response, whatever is absent or malformed in its payload, and so leaves
\* alerts, advice and wqi that match the sample it stored.
C10_IngestNeverFails ==
    [][\A p \in IngestPayloads :
          \A r \in receive_data(Current, p, now) :
              Serve(r.st) =>
                  /\ r.status = "ok"
                  /\ ~HealthRaises(current_data')
                  /\ UpdateAlerts(current_data', check_health(current_data'))
                        = current_data'
                  /\ current_data'.wqi = calculate_wqi(current_data')]_vars

\* C11 (as claimed): for every ingest whose temp field is a number t other
\* than the sentinel, with target T, t < T - H leaves heater_cmd true and
\* t > T leaves it false, whatever it was before; the response carries the
\* heater_cmd then stored.
C11_ThermostatOutsideBand ==
    \A p \in IngestPayloads :
        LET raw_temp == Get(p.temp, Num(RAW_SENTINEL))
            T == SETTINGS.target_temp
        IN  (raw_temp.kind = "num" /\ raw_temp.v # RAW_SENTINEL) =>
            \A r \in receive_data(Current, p, now) :
                /\ RoundTemp(raw_temp.v) < T - HYSTERESIS
                      => r.st.heater_cmd = TRUE
                /\ RoundTemp(raw_temp.v) > T => r.st.heater_cmd = FALSE
                /\ r.response = Response(r.st.heater_cmd)

\* What an ingest leaves of the sample and of what is derived from it
Sampled(st) ==
    LET cd == st.current_data
    IN  <<cd.temp, cd.ph, cd.tds, cd.turbidity, cd.water_level,
          cd.temp_alert, cd.ph_alert, cd.turbidity_alert, cd.tds_alert,
          cd.water_level_alert, cd.global_alert,
          cd.advice, cd.wqi, st.heater_cmd>>

\* The states a second ingest may find after a first one left st, with no
\* settings write in between: st itself, or st after a dashboard read or a
\* settings read at time t.
BetweenIngests(st, t) ==
    {st} \cup {dashboard(st, ups, t) : ups \in Connects(2)}
         \cup {get_settings(st, ups) : ups \in Connects(2)}

\* C12 (as claimed): the same payload ingested a second time, inside the
\* history window of the first and with no settings write in between, leaves
\* the calibrated values, alerts, advice, wqi and heater_cmd of the first, and
\* appends no second history entry.  The step is the first ingest; the
\* second follows it dt seconds later.
C12_IngestIdempotent ==
    [][\A p \in IngestPayloads :
          \A r1 \in receive_data(Current, p, now) :
              Serve(r1.st) =>
                  \A dt \in {0, OFFLINE_AFTER + 1} :
                      \A mid \in BetweenIngests(r1.st, now + dt) :
                          \A r2 \in receive_data(mid, p, now + dt) :
                              now + dt - r1.st.last_history_save < HISTORY_PERIOD
                              => /\ Sampled(r2.st) = Sampled(r1.st)
                                 /\ r2.st.history = r1.st.history]_vars

\* The advice the claim describes for a stored sample: the findings that
\* hold, in the priority order, as <<finding, severity>>; "ok" alone if none.
ClaimedAdvice(data) ==
    LET connected == data.temp # SENTINEL
        findings ==
            << <<"tds", "danger", data.tds > TDS_LIMIT>>,
               <<"turbidity", "warning", data.turbidity > TURBIDITY_LIMIT>>,
               <<"ph_low", "warning", 0 < data.ph /\ data.ph < PH_MIN>>,
               <<"ph_high", "warning", data.ph > PH_MAX>>,
               <<"cold", "warning",
                 connected /\ data.temp < data.target_temp - 10>>,
               <<"hot", "warning",
                 connected /\ data.temp > data.target_temp + 20>>,
               <<"water_level", "warning",
                 data.water_level.v < WATER_LEVEL_MIN>> >>
        Holds(f) == f[3]
        held == SelectSeq(findings, Holds)
    IN  IF Len(held) = 0 THEN << <<"ok", "ok">> >>
        ELSE [i \in 1..Len(held) |-> <<held[i][1], held[i][2]>>]

\* C13 (as claimed): once an ingest has stored a sample, the advice list
\* held beside it (the one the ingest computed, or the one a later settings
\* write computed for the new target and volume) is exactly the findings
\* that hold, one entry each, in the priority order, tds tagged danger and
\* the others warning; the ok entry alone if and only if none holds.  The
\* findings are read on the decimal values: cold is temp < target - 1.0,
\* hot is temp > target + 2.0.
C13_AdvisorOutput ==
    LET advice == current_data.advice
    IN  current_data.last_timestamp # 0 =>
            [i \in 1..Len(advice) |-> <<advice[i].text, advice[i].type>>]
                = ClaimedAdvice(current_data)

\* The alerts the claim describes for a stored sample
ClaimedAlerts(data) ==
    [temp_alert |-> \/ data.temp = SENTINEL
                    \/ Abs(data.temp - data.target_temp) > ALARM_TOLERANCE,
     ph_alert |-> data.ph < PH_MIN \/ data.ph > PH_MAX,
     turbidity_alert |-> data.turbidity > TURBIDITY_LIMIT,
     tds_alert |-> data.tds > TDS_LIMIT,
     water_level_alert |-> data.water_level.v < WATER_LEVEL_MIN]

\* The alerts and the advice stored in data are those of its sample and
\* settings.
Recomputed(data) ==
    LET claimed == ClaimedAlerts(data)
    IN  /\ data.water_level.kind = "num"
        /\ data.temp_alert = claimed.temp_alert
        /\ data.ph_alert = claimed.ph_alert
        /\ data.turbidity_alert = claimed.turbidity_alert
        /\ data.tds_alert = claimed.tds_alert
        /\ data.water_level_alert = claimed.water_level_alert
        /\ [i \in 1..Len(data.advice) |->
                <<data.advice[i].text, data.advice[i].type>>]
              = ClaimedAdvice(data)

\* C14 (as claimed): right after every ingest that stored its sample and
\* after every successful settings write, temp_alert is true if temp is the
\* sentinel and otherwise exactly when |temp - target_temp| > 1.5, on the
\* values then stored; the other alerts and the advice are likewise those of
\* the stored sample.
C14_AlertsRecomputed ==
    [][/\ \A p \in IngestPayloads :
             ~receive_data_convert(Current, p).raises =>
                 \A r \in receive_data(Current, p, now) :
                     Serve(r.st) => Recomputed(current_data')
       /\ \A data \in SettingsInputs, ups \in Connects(2) :
             LET r == SettingsWrite(Current, ups, data)
             IN  (Serve(r.st) /\ r.status = "ok") => Recomputed(current_data')]_vars

\* C15 (as claimed): after a dashboard read, status is Offline if an ingest
\* has occurred and the last one is more than 20 seconds old, and Online in
\* every other case; an ingest returns status to Online.  last_timestamp
\* stands for the time of the last ingest.
C15_OfflineDetection ==
    [][/\ Dashboard =>
             current_data'.status =
                 IF /\ current_data.last_timestamp # 0
                    /\ now - current_data.last_timestamp > OFFLINE_AFTER
                 THEN "Offline" ELSE "Online"
       /\ \A p \in IngestPayloads :
             \A r \in receive_data(Current, p, now) :
                 (Serve(r.st) /\ r.status = "ok")
                     => current_data'.status = "Online"]_vars

\* The index the claim describes, in twentieths before the truncation
ClaimedWqi(data) ==
    LET ph_penalty == IF data.ph = 0 THEN 0
                      ELSE Min(Abs(data.ph - 70) * 30, 600)
        tds_penalty == IF data.tds > 500 THEN 600
                       ELSE IF data.tds > 300 THEN (data.tds - 300) * 2
                       ELSE 0
        turbidity_penalty == IF data.turbidity > 30 THEN 500
                             ELSE IF data.turbidity > 10
                                 THEN (data.turbidity - 10) * 15
                             ELSE 0
        deviation == Abs(data.temp - data.target_temp)
        temp_penalty == IF data.temp = SENTINEL THEN 0
                        ELSE IF deviation > 20 THEN 300
                        ELSE IF deviation > 10 THEN 100
                        ELSE 0
    IN  Max(0, Min(100, Trunc(2000 - ph_penalty - tds_penalty
                                   - turbidity_penalty - temp_penalty, 20)))

\* C16 (as claimed): the wqi an ingest stores is the claimed index of the
\* sample and target it stored, an integer in [0,100].
C16_WaterQualityIndex ==
    [][\A p \in IngestPayloads :
          \A r \in receive_data(Current, p, now) :
              (Serve(r.st) /\ r.status = "ok") =>
                  /\ current_data'.wqi \in 0..100
                  /\ current_data'.wqi = ClaimedWqi(current_data')]_vars

\* C17 (as claimed): the projection an ingest stores is "no projection"
\* when fewer than ten history entries have a positive TDS or the current
\* TDS is at or above the limit, and any day count it stores is an integer
\* in [1, 365]: it is never 0.
C17_ProjectionOutcome ==
    LET projection == current_data.tds_prediction_days
    IN  /\ Len(SelectSeq(history, HasTds)) < 10 => projection = NoneValue
        /\ (current_data.last_timestamp # 0 /\ current_data.tds >= TDS_LIMIT)
              => projection = NoneValue
        /\ projection # NoneValue =>
              /\ projection.kind = "num"
              /\ projection.v \in 1..365

\* The conversion the claim describes: the voltage v = raw / 4095 * 3.3 is
\* divided by k = 1 + 0.02 * (temp - 25) = (250 + t) / 500, t the
\* temperature in tenths (250 for a disconnected sensor), before the cubic:
\* v / k = x / d with x = 110 * raw and d = 273 * (250 + t).
ClaimedTds(raw, temp) ==
    LET t == IF temp = SENTINEL THEN 250 ELSE temp
        MulX(a) == BigMul(BigMul(a, 110), raw)
        MulD(a) == BigMul(BigMul(a, 273), 250 + t)
        a3 == MulX(MulX(MulX(BigOf(13342))))
        a2 == MulD(MulX(MulX(BigOf(25586))))
        a1 == MulD(MulD(MulX(BigOf(85739))))
        den == MulD(MulD(MulD(BigOf(100))))
    IN  IF 11000 * raw < 273 * (250 + t) THEN 0
        ELSE BigQuot(BigSub(BigAdd(a3, a1), a2), den, 0, TDS_MAX)

\* C18 (as claimed): the tds an ingest stores is the conversion of its raw
\* code compensated for the temperature it stored, 25 degrees standing in
\* for a disconnected sensor.
C18_TdsCompensated ==
    [][\A p \in IngestPayloads :
          \A r \in receive_data(Current, p, now) :
              (Serve(r.st) /\ r.status = "ok") =>
                  current_data'.tds =
                      ClaimedTds(Get(p.tds, Num(0)).v, current_data'.temp)]_vars

\* C19: an ingest whose temp field is -127 or absent leaves heater_cmd as it
\* was, whatever it was and whatever the target, and its response carries
\* that value.
C19_DisconnectedSkipsThermostat ==
    \A p \in IngestPayloads :
        LET raw_temp == Get(p.temp, Num(RAW_SENTINEL))
        IN  (raw_temp.kind = "num" /\ raw_temp.v = RAW_SENTINEL) =>
            \A r \in receive_data(Current, p, now) :
                /\ r.st.heater_cmd = heater_cmd
                /\ r.status = "ok" =>
                      /\ r.st.current_data.temp = SENTINEL
                      /\ r.response = Response(heater_cmd)

\* C19 witness: the heater is on, switched on by an earlier ingest, and the
\* ingest just served stored the sentinel.
C19_Witness ==
    /\ heater_cmd = TRUE
    /\ current_data.temp = SENTINEL
    /\ current_data.last_timestamp = now
    /\ current_data.status = "Online"
    /\ current_data.temp_alert

\* C20: in every reachable state global_alert is the logical OR of the five
\* alerts stored beside it.
C20_GlobalAlertIsOr ==
    current_data.global_alert =
        (\/ current_data.temp_alert
         \/ current_data.ph_alert
         \/ current_data.turbidity_alert
         \/ current_data.tds_alert
         \/ current_data.water_level_alert)

\* C20 witness: the temperature alarm alone raised the global alert.
C20_Witness ==
    /\ current_data.global_alert
    /\ current_data.temp_alert
    /\ ~current_data.ph_alert
    /\ ~current_data.turbidity_alert
    /\ ~current_data.tds_alert
    /\ ~current_data.water_level_alert

\* C21: in every reachable state the tank_volume held in SETTINGS, in
\* current_data and, where the settings table exists, in the store is a whole
\* number of litres that is at least 1, whatever volumes the settings writes
\* supplied (zero and negative ones included).
C21_TankVolumeFloor ==
    /\ SETTINGS.tank_volume \in Nat /\ SETTINGS.tank_volume >= 1
    /\ current_data.tank_volume \in Nat /\ current_data.tank_volume >= 1
    /\ (db.exists => (db.tank_volume \in Nat /\ db.tank_volume >= 1))

\* A write of a volume below 1 has been floored to 1 in all three places
\* (no store starts at 1 litre and no other write gives 1 litre).
C21_Witness ==
    /\ SETTINGS.tank_volume = 1
    /\ current_data.tank_volume = 1
    /\ db.exists /\ db.tank_volume = 1

\* C22: heater_cmd changes only during ingest.  In every reachable state a
\* settings write (POST /api/settings, POST /set_target), a settings read and
\* a dashboard read leave heater_cmd as it is, a settings write that answers
\* "ok" returns that value, and an ingest changes heater_cmd only if it
\* carries a connected temperature.
C22_HeaterOnlyOnIngest ==
    /\ \A ups \in Connects(2) :
          /\ \A data \in SettingsInputs :
                LET r == SettingsWrite(Current, ups, data)
                IN  /\ r.st.heater_cmd = heater_cmd
                    /\ r.status = "ok" => r.response.heater_cmd = heater_cmd
          /\ get_settings(Current, ups).heater_cmd = heater_cmd
          /\ dashboard(Current, ups, now).heater_cmd = heater_cmd
    /\ \A p \in IngestPayloads :
          \A r \in receive_data(Current, p, now) :
              r.st.heater_cmd # heater_cmd =>
                  /\ p.temp.kind = "num"
                  /\ p.temp.v # RAW_SENTINEL

\* C22 witness: the last ingest stored 24.5 and switched the heater on
\* against a target of 26.0; a settings write has since moved the target to
\* 24.0, below the temperature, and the heater is still on.
C22_Witness ==
    /\ heater_cmd = TRUE
    /\ current_data.temp = 245
    /\ SETTINGS.target_temp = 240
    /\ current_data.target_temp = 240
    /\ ~current_data.temp_alert

====
